---- MODULE Spec2Model ----
(***************************************************************************)
(* Model of the reader framework of AnaliticsApp: files.py (the parameter  *)
(* validation, the reader classes, FileManager), database.py (the          *)
(* ChartHistory store) and main.py (the activities of AnalyticsApp).       *)
(*                                                                         *)
(* Strings that the code splits or matches (source identifiers) are        *)
(* sequences of tokens; the tokens form a prefix-free and suffix-free code *)
(* and only the token "." holds a dot, so equality, split('.'), endswith   *)
(* and "'.' in s" on token sequences agree with the same operations on the *)
(* concatenated text.  Python values are records of their exact runtime    *)
(* type and their repr.                                                    *)
(***************************************************************************)
EXTENDS Integers, Sequences, FiniteSets, TLC

VARIABLES
    current_file_path,  \* FileManager.__current_file_path
    extra_kwargs,       \* FileManager.__extra_kwargs
    last_requested,     \* history: identifier of the caller's last get_required_fields
    since,              \* history: what ran since then ("none", "other", "chart")
    call,               \* the call that ran last, with its arguments
    ret,                \* what that call returned or raised
    file_path,          \* AnalyticsApp.file_path
    page,               \* what AnalyticsApp.page shows
    store,              \* the rows of the chart_history table
    dialog,             \* the message of the dialog shown last, if any
    escaped             \* the error that left an activity handler uncaught, if any

vars == <<current_file_path, extra_kwargs, last_requested, since, call, ret,
          file_path, page, store, dialog, escaped>>

fm_vars == <<current_file_path, extra_kwargs, last_requested, since>>

app_vars == <<file_path, page, store, dialog, escaped>>

----------------------------------------------------------------------------
(* Bounds *)

\* the names a drawn schema may use, counted from the front of NameOrder
MaxNames == 3

\* tokens before the last token of a drawn identifier
MaxStemLen == 2

\* columns a decoded source may have, counted from the front of ColumnOrder
MaxCols == 2

\* rows the chart_history table may hold
MaxStore == 1

----------------------------------------------------------------------------
(* Python values *)

PyStr(s) == [type |-> "str", repr |-> s]

PyInt(s) == [type |-> "int", repr |-> s]

PyBool(s) == [type |-> "bool", repr |-> s]

PyNone == [type |-> "NoneType", repr |-> "None"]

\* bool(value) of Python
Truthy(v) ==
    CASE v.type = "str" -> v.repr # ""
      [] v.type = "int" -> v.repr # "0"
      [] v.type = "bool" -> v.repr = "True"
      [] OTHER -> FALSE

\* a dict: its items, or None where Python passes None for it
Dict(items) == [none |-> FALSE, items |-> items]

NoneDict == [none |-> TRUE, items |-> <<>>]

EmptyDict == Dict(<<>>)

Keys(d) == DOMAIN d.items

\* d.update(e) on a copy of d
Update(d, e) == [k \in (DOMAIN d) \cup (DOMAIN e) |-> IF k \in DOMAIN e THEN e[k] ELSE d[k]]

\* the dict without the keys in ks
Without(d, ks) == [k \in (DOMAIN d) \ ks |-> d[k]]

----------------------------------------------------------------------------
(* Results of calls *)

NoTable == [kind |-> "none", columns |-> <<>>]

\* a call that returned; the fields say what it returned
Ok ==
    [kind |-> "ok", message |-> "", names |-> {}, table |-> NoTable, schema |-> <<>>,
     reader |-> "", extension |-> <<>>]

\* a call that raised `kind`; names are the names its message carries
Raised(kind, message, names) ==
    [Ok EXCEPT !.kind = kind, !.message = message, !.names = names]

NoCall ==
    [op |-> "none", id |-> <<>>, data |-> EmptyDict, schema |-> <<>>, source |-> NoTable,
     created |-> 0]

----------------------------------------------------------------------------
(* files.py: validate_required_fields *)

\* what the loop body raises for one field of provided_fields, if anything
FieldErrors(required_fields, provided_fields, field) ==
    IF field \notin DOMAIN required_fields
    THEN {Raised("KeyError", "key", {field})}
    ELSE IF ~Truthy(provided_fields.items[field])
    THEN {Raised("ValueError", "value_not_given", {field})}
    ELSE IF provided_fields.items[field].type # required_fields[field]
    THEN {Raised("TypeError", "wrong_type", {field})}
    ELSE {}

\* the loop visits list(set(keys)) in the set's order, so any failing field
\* may be the first one visited
LoopOutcomes(required_fields, provided_fields) ==
    LET failures == UNION {FieldErrors(required_fields, provided_fields, f) :
                            f \in Keys(provided_fields)}
    IN  IF failures = {} THEN {Ok} ELSE failures

\* the slip of leaving out the check of line 19
validate_required_fields_unchecked(required_fields, provided_fields) ==
    IF DOMAIN required_fields = {}
    THEN {Ok}
    ELSE IF provided_fields.none \/ Keys(provided_fields) = {}
    THEN {Raised("AssertionError", "parameters_not_given", DOMAIN required_fields)}
    ELSE LoopOutcomes(required_fields, provided_fields)

validate_required_fields(required_fields, provided_fields) ==
    IF DOMAIN required_fields = {}
    THEN {Ok}
    ELSE IF provided_fields.none \/ Keys(provided_fields) = {}
    THEN {Raised("AssertionError", "parameters_not_given", DOMAIN required_fields)}
    ELSE IF (DOMAIN required_fields) \ Keys(provided_fields) # {}
    THEN {Raised("AssertionError", "not_enough_parameters",
                 (DOMAIN required_fields) \ Keys(provided_fields))}
    ELSE LoopOutcomes(required_fields, provided_fields)

----------------------------------------------------------------------------
(* files.py: the reader classes *)

\* BaseFileReader.__subclasses__(), in the order of definition
FileReaders ==
    <<"CsvReader", "JsonReader", "PickleReader", "HtmlReader", "XmlReader", "SqliteReader">>

\* BaseRemoteDatabaseReader.__subclasses__(), in the order of definition
RemoteReaders == <<"MySQLReader", "PostgreSQlReader", "MariaDBReader">>

allowed_extension(cls) ==
    CASE cls = "CsvReader" -> <<"csv">>
      [] cls = "JsonReader" -> <<"json">>
      [] cls = "PickleReader" -> <<"pickle">>
      [] cls = "HtmlReader" -> <<"html">>
      [] cls = "XmlReader" -> <<"xml">>
      [] cls = "SqliteReader" -> <<"db">>
      [] cls = "MySQLReader" -> <<"mysql+pymysql">>
      [] cls = "PostgreSQlReader" -> <<"postgresql+psycopg2">>
      [] cls = "MariaDBReader" -> <<"mariadb+pymysql">>

Range(seq) == {seq[i] : i \in DOMAIN seq}

is_remote(cls) == cls \in Range(RemoteReaders)

RemoteFieldNames == {"table_name", "hostname", "port", "user", "password", "schema"}

\* the class attribute required_fields of a reader class
reader_required_fields(cls) ==
    IF is_remote(cls) THEN [n \in RemoteFieldNames |-> "str"]
    ELSE IF cls = "SqliteReader" THEN [n \in {"table_name"} |-> "str"]
    ELSE <<>>

\* {cls.allowed_extension: cls for cls in classes}: a later class replaces an
\* earlier one under the same key
ReaderDict(classes) ==
    [e \in {allowed_extension(c) : c \in Range(classes)} |->
        classes[CHOOSE i \in DOMAIN classes :
                    /\ allowed_extension(classes[i]) = e
                    /\ \A j \in DOMAIN classes :
                          allowed_extension(classes[j]) = e => j <= i]]

extension_readers == ReaderDict(FileReaders)

database_readers == ReaderDict(RemoteReaders)

allowed_extensions == DOMAIN extension_readers

\* FileManager.required_fields
manager_required_fields == [n \in {"plot_verbose", "plot_value"} |-> "str"]

----------------------------------------------------------------------------
(* Source identifiers *)

\* the value None where a path is expected
NonePath == <<"None">>

HasDot(s) == \E i \in DOMAIN s : s[i] = "."

\* s.split('.')[-1]: the text after the last dot, all of s when it has none
RECURSIVE LastPart(_)
LastPart(s) ==
    IF s = <<>> THEN <<>>
    ELSE IF s[Len(s)] = "." THEN <<>>
    ELSE Append(LastPart(SubSeq(s, 1, Len(s) - 1)), s[Len(s)])

\* s.endswith(e)
EndsWith(s, e) == Len(e) <= Len(s) /\ SubSeq(s, Len(s) - Len(e) + 1, Len(s)) = e

----------------------------------------------------------------------------
(* files.py: FileManager resolution *)

\* the slip of asking for a dot before looking for a dialect tag
validate_file_dot_first(path) ==
    IF path = NonePath
    THEN Raised("TypeError", "not_iterable", {})
    ELSE IF ~HasDot(path)
    THEN Raised("AssertionError", "no_extension", {})
    ELSE IF path \in DOMAIN database_readers
    THEN [Ok EXCEPT !.extension = path]
    ELSE IF LastPart(path) \notin allowed_extensions
    THEN Raised("AssertionError", "extension_not_allowed", {})
    ELSE IF LastPart(path) \notin DOMAIN extension_readers
    THEN Raised("AssertionError", "extension_not_supported", {})
    ELSE [Ok EXCEPT !.extension = LastPart(path)]

\* the slip of checking the readers before the allow-list
validate_file_readers_first(path) ==
    IF path # NonePath /\ path \in DOMAIN database_readers
    THEN [Ok EXCEPT !.extension = path]
    ELSE IF path = NonePath
    THEN Raised("TypeError", "not_iterable", {})
    ELSE IF ~HasDot(path)
    THEN Raised("AssertionError", "no_extension", {})
    ELSE IF LastPart(path) \notin DOMAIN extension_readers
    THEN Raised("AssertionError", "extension_not_supported", {})
    ELSE IF LastPart(path) \notin allowed_extensions
    THEN Raised("AssertionError", "extension_not_allowed", {})
    ELSE [Ok EXCEPT !.extension = LastPart(path)]

validate_file(path) ==
    IF path # NonePath /\ path \in DOMAIN database_readers
    THEN [Ok EXCEPT !.extension = path]
    ELSE IF path = NonePath
    THEN Raised("TypeError", "not_iterable", {})
    ELSE IF ~HasDot(path)
    THEN Raised("AssertionError", "no_extension", {})
    ELSE IF LastPart(path) \notin allowed_extensions
    THEN Raised("AssertionError", "extension_not_allowed", {})
    ELSE IF LastPart(path) \notin DOMAIN extension_readers
    THEN Raised("AssertionError", "extension_not_supported", {})
    ELSE [Ok EXCEPT !.extension = LastPart(path)]

get_file_reader_class(extension) ==
    IF extension \in DOMAIN extension_readers
    THEN [Ok EXCEPT !.reader = extension_readers[extension]]
    ELSE IF extension \in DOMAIN database_readers
    THEN [Ok EXCEPT !.reader = database_readers[extension]]
    ELSE Raised("AssertionError", "reader_not_found", {})

\* extension = self._validate_file(file_path)
\* reader_class = self._get_file_reader_class(extension)
Resolve(path) ==
    LET v == validate_file(path)
    IN  IF v.kind # "ok" THEN v ELSE get_file_reader_class(v.extension)

\* FileManager.get_required_fields, without its assignment to the cached path:
\* the schema of the reader united with the two axis fields
get_required_fields(path) ==
    LET r == Resolve(path)
    IN  IF r.kind # "ok" THEN r
        ELSE [r EXCEPT !.schema = Update(reader_required_fields(r.reader),
                                         manager_required_fields)]

----------------------------------------------------------------------------
(* files.py: the readers *)

\* BaseFileReader.validate_file_path, BaseRemoteDatabaseReader.validate_file_path
validate_file_path(cls, path) ==
    IF allowed_extension(cls) = <<>>
    THEN Raised("AssertionError", "extension_not_set", {})
    ELSE IF ~is_remote(cls) /\ ~EndsWith(path, allowed_extension(cls))
    THEN Raised("AssertionError", "extension_of_other_reader", {})
    ELSE Ok

\* BaseReader.__init__: reader_class(file_path, no_validate, **kwargs)
Construct(cls, path, no_validate, kwargs) ==
    IF validate_file_path(cls, path).kind # "ok"
    THEN {validate_file_path(cls, path)}
    ELSE IF no_validate THEN {Ok}
    ELSE validate_required_fields(reader_required_fields(cls), Dict(kwargs))

\* what the decoder (pandas) makes of the source: it raises, or a table whose
\* columns have a numeric dtype or not
ReadFails == [kind |-> "error", columns |-> <<>>]

Table(columns) == [kind |-> "table", columns |-> columns]

\* DataFrame.select_dtypes(include=np.number): a new table of the numeric columns
select_dtypes(table) ==
    Table([c \in {d \in DOMAIN table.columns : table.columns[d] = "number"} |->
              table.columns[c]])

\* read() of the reader class on a source the decoder reads as `source`
read(cls, source) ==
    IF source.kind = "error"
    THEN Raised("SourceError", "read_failed", {})
    ELSE LET dataframe == source
             filtered == select_dtypes(dataframe)
         IN  CASE cls = "HtmlReader" ->
                    \* pd.read_html returns a list of tables
                    [Ok EXCEPT !.reader = cls,
                               !.table = [kind |-> "list", columns |-> dataframe.columns]]
               [] cls = "XmlReader" ->
                    \* no return statement: None
                    [Ok EXCEPT !.reader = cls, !.table = NoTable]
               [] OTHER ->
                    \* the filtered table is dropped, the decoded one returned
                    [Ok EXCEPT !.reader = cls, !.table = dataframe]

----------------------------------------------------------------------------
(* files.py: FileManager *)

\* FileManager._open_file(file_path, **kwargs)
open_file(path, kwargs, source) ==
    LET r == Resolve(path)
    IN  IF r.kind # "ok" THEN {r}
        ELSE {IF c.kind # "ok" THEN c ELSE read(r.reader, source) :
                c \in Construct(r.reader, path, FALSE, kwargs)}

\* FileManager.file_name(file_path, data)
file_name(path, data) ==
    LET r == Resolve(path)
    IN  IF r.kind # "ok" THEN {r}
        ELSE IF data.none THEN {Raised("TypeError", "not_a_mapping", {})}
        ELSE {IF c.kind # "ok" THEN c ELSE [Ok EXCEPT !.reader = r.reader,
                                                      !.message = "reader_str"] :
                c \in Construct(r.reader, path, TRUE, data.items)}

\* file[key] on what read() returned
GetColumn(file, key) ==
    CASE file.kind = "none" -> Raised("TypeError", "not_subscriptable", {})
      [] file.kind = "list" -> Raised("TypeError", "list_index", {})
      [] OTHER -> IF key.type = "str" /\ key.repr \in DOMAIN file.columns
                  THEN Ok
                  ELSE Raised("KeyError", "column", {key.repr})

\* the slip of taking the value column first
GetColumnsValueFirst(file, plot_verbose, plot_value) ==
    IF GetColumn(file, plot_value).kind # "ok"
    THEN GetColumn(file, plot_value)
    ELSE GetColumn(file, plot_verbose)

\* [file[key] for key in (plot_verbose, plot_value)]: the first failure raises
GetColumns(file, plot_verbose, plot_value) ==
    IF GetColumn(file, plot_verbose).kind # "ok"
    THEN GetColumn(file, plot_verbose)
    ELSE GetColumn(file, plot_value)

\* FileManager.generate_chart(file_path, **kwargs): what it returns or raises,
\* and whether it got to reset the cached path
generate_chart(path, kwargs, source) ==
    IF "plot_verbose" \notin DOMAIN kwargs
    THEN {[ret |-> Raised("KeyError", "key", {"plot_verbose"}), reset |-> FALSE]}
    ELSE IF "plot_value" \notin DOMAIN kwargs
    THEN {[ret |-> Raised("KeyError", "key", {"plot_value"}), reset |-> FALSE]}
    ELSE {IF file.kind # "ok"
          THEN [ret |-> file, reset |-> FALSE]
          ELSE LET columns == GetColumns(file.table, kwargs["plot_verbose"],
                                         kwargs["plot_value"])
               IN  [ret |-> IF columns.kind # "ok"
                            THEN [columns EXCEPT !.table = file.table,
                                                 !.reader = file.reader]
                            ELSE [file EXCEPT !.message = "figure"],
                    reset |-> TRUE] :
            file \in open_file(path, Without(kwargs, {"plot_verbose", "plot_value"}),
                               source)}

\* the slip of a setter that resolves the path and validates nothing
fields_setter_unvalidated(path, value) ==
    LET g == get_required_fields(path)
    IN  IF g.kind # "ok" THEN {g} ELSE {Ok}

\* the setter of FileManager.fields, after it stored the copy of value:
\* _validate_required_fields() against get_required_fields(current path)[0]
fields_setter(path, value) ==
    LET g == get_required_fields(path)
    IN  IF g.kind # "ok" THEN {g}
        ELSE validate_required_fields(g.schema, value)

----------------------------------------------------------------------------
(* The inputs the calls are drawn from *)

NameOrder ==
    <<"table_name", "plot_verbose", "plot_value", "hostname", "port", "user",
      "password", "schema">>

\* the names a drawn schema may declare
SchemaNames == {NameOrder[i] : i \in 1..MaxNames}

\* a name no drawn schema declares
ForeignName == "legend"

TypeNames == {"str", "int"}

Values == {PyStr("x"), PyStr(""), PyInt("42"), PyBool("True")}

Maps(names, values) == UNION {[d -> values] : d \in SUBSET names}

StemTokens == {"a", "."}

LastTokens ==
    {allowed_extension(c)[1] : c \in Range(FileReaders) \cup Range(RemoteReaders)}
        \cup {"txt"}

Stems == UNION {[1..n -> StemTokens] : n \in 0..MaxStemLen}

Identifiers == {s \o t : s \in Stems, t \in {<<>>} \cup {<<l>> : l \in LastTokens}}

\* the schemas get_required_fields computes
ProgramSchemas ==
    {get_required_fields(allowed_extension(c)).schema : c \in Range(RemoteReaders)}
        \cup {get_required_fields(<<"a", ".">> \o allowed_extension(c)).schema :
                 c \in Range(FileReaders)}

SchemaInputs == Maps(SchemaNames, TypeNames) \cup ProgramSchemas

ProvidedInputs ==
    {NoneDict} \cup {Dict(m) : m \in Maps(SchemaNames \cup {ForeignName}, Values)}

ColumnOrder == <<"x", "y", "z">>

\* the columns a decoded source may have
ColumnNames == {ColumnOrder[i] : i \in 1..MaxCols}

Sources == {ReadFails} \cup {Table(c) : c \in Maps(ColumnNames, {"number", "object"})}

\* the values typed for the two axis fields
AxisValues == {PyStr("x"), PyStr("z")}

\* every field of the schema filled in, the axis fields with a and b
Filled(schema, a, b) ==
    [n \in DOMAIN schema |->
        CASE n = "plot_verbose" -> a
          [] n = "plot_value" -> b
          [] OTHER -> PyStr("t")]

\* the filled-in fields and what is one slip away from them: a field left out,
\* left empty or given a number, a field too many
FieldVariants(schema) ==
    LET full == Filled(schema, PyStr("x"), PyStr("z"))
    IN  {Filled(schema, a, b) : a \in AxisValues, b \in AxisValues}
            \cup {Without(full, {n}) : n \in DOMAIN schema}
            \cup {[full EXCEPT ![n] = v] : n \in DOMAIN schema, v \in {PyStr(""), PyInt("42")}}
            \cup {Update(full, [k \in {ForeignName} |-> PyStr("t")])}

FieldInputs == {EmptyDict} \cup {Dict(m) : m \in UNION {FieldVariants(r) : r \in ProgramSchemas}}

\* the field inputs whose slip, if any, is in an axis field, in table_name or in
\* a field too many
ChartInputs ==
    {d \in FieldInputs :
        /\ Keys(d) \cap RemoteFieldNames \in {{}, {"table_name"}, RemoteFieldNames}
        /\ \A n \in (Keys(d) \cap RemoteFieldNames) \ {"table_name"} :
              d.items[n] = PyStr("t")}

----------------------------------------------------------------------------
(* The state after construction: FileManager.__init__, AnalyticsApp.__init__ *)

Pending == [Ok EXCEPT !.kind = "pending"]

NoError == [activity |-> "", kind |-> ""]

InitManager ==
    /\ current_file_path = NonePath
    /\ extra_kwargs = EmptyDict
    /\ last_requested = NonePath
    /\ since = "none"

InitApp ==
    /\ file_path = NonePath
    /\ page = "main"
    /\ store = <<>>
    /\ dialog = ""
    /\ escaped = NoError

----------------------------------------------------------------------------
(* validate_required_fields as a function of its two arguments *)

InitValidate ==
    /\ InitManager
    /\ InitApp
    /\ call \in {[NoCall EXCEPT !.op = "validate", !.schema = r, !.data = p] :
                    r \in SchemaInputs, p \in ProvidedInputs}
    /\ ret = Pending

ApplyValidate ==
    /\ call.op = "validate"
    /\ ret = Pending
    /\ ret' \in validate_required_fields(call.schema, call.data)
    /\ UNCHANGED <<call, fm_vars, app_vars>>

NextValidate == ApplyValidate

SpecValidate == InitValidate /\ [][NextValidate]_vars

----------------------------------------------------------------------------
(* Resolution as a function of the identifier *)

InitResolve ==
    /\ InitManager
    /\ InitApp
    /\ call \in {[NoCall EXCEPT !.op = "resolve", !.id = i] : i \in Identifiers}
    /\ ret = Pending

ApplyResolve ==
    /\ call.op = "resolve"
    /\ ret = Pending
    /\ ret' = Resolve(call.id)
    /\ UNCHANGED <<call, fm_vars, app_vars>>

NextResolve == ApplyResolve

SpecResolve == InitResolve /\ [][NextResolve]_vars

----------------------------------------------------------------------------
(* _open_file and generate_chart as functions of the identifier, the        *)
(* keyword arguments and what the decoder makes of the source               *)

InitChart ==
    /\ InitManager
    /\ InitApp
    /\ call \in {[NoCall EXCEPT !.op = o, !.id = i, !.data = d, !.source = s] :
                    o \in {"open_file", "generate_chart"}, i \in Identifiers,
                    d \in ChartInputs, s \in Sources}
    /\ ret = Pending

ApplyOpenFile ==
    /\ call.op = "open_file"
    /\ ret = Pending
    /\ ret' \in open_file(call.id, call.data.items, call.source)
    /\ UNCHANGED <<call, fm_vars, app_vars>>

ApplyGenerateChart ==
    /\ call.op = "generate_chart"
    /\ ret = Pending
    /\ \E g \in generate_chart(call.id, call.data.items, call.source) :
          /\ ret' = g.ret
          /\ current_file_path' = IF g.reset THEN NonePath ELSE current_file_path
    /\ UNCHANGED <<call, extra_kwargs, last_requested, since, app_vars>>

NextChart == ApplyOpenFile \/ ApplyGenerateChart

SpecChart == InitChart /\ [][NextChart]_vars

----------------------------------------------------------------------------
(* Calls on one FileManager, in any order *)

\* what the callers of this specification pass to file_name and generate_chart
DataInputs ==
    {NoneDict, EmptyDict} \cup
        {Dict(Filled(r, PyStr("x"), PyStr("x"))) : r \in ProgramSchemas}

\* a dialect tag, files of readers with and without fields of their own, a file
\* of no reader, a name without a dot
CallIdentifiers ==
    {<<"mysql+pymysql">>, <<"a", ".", "csv">>, <<"a", ".", "db">>, <<"a", ".", "xml">>,
     <<"a", ".", "txt">>, <<"a">>}

ManagerSources == {ReadFails, Table([c \in ColumnNames |-> "number"])}

InitCalls ==
    /\ InitManager
    /\ InitApp
    /\ call = NoCall
    /\ ret = Pending

GetRequiredFields(id) ==
    /\ current_file_path' = id
    /\ ret' = get_required_fields(id)
    /\ call' = [NoCall EXCEPT !.op = "get_required_fields"]
    /\ last_requested' = id
    /\ since' = "none"
    /\ UNCHANGED <<extra_kwargs, app_vars>>

SetFields(value) ==
    /\ extra_kwargs' = value
    /\ ret' \in fields_setter(current_file_path, value)
    /\ call' = [NoCall EXCEPT !.op = "fields"]
    /\ UNCHANGED <<current_file_path, last_requested, since, app_vars>>

FileName(id, data) ==
    /\ ret' \in file_name(id, data)
    /\ call' = [NoCall EXCEPT !.op = "file_name"]
    /\ since' = IF since = "chart" THEN since ELSE "other"
    /\ UNCHANGED <<current_file_path, extra_kwargs, last_requested, app_vars>>

GenerateChart(id, data, source) ==
    /\ \E g \in generate_chart(id, data.items, source) :
          /\ ret' = g.ret
          /\ current_file_path' = IF g.reset THEN NonePath ELSE current_file_path
          /\ since' = IF g.reset \/ since = "chart" THEN "chart" ELSE "other"
    /\ call' = [NoCall EXCEPT !.op = "generate_chart"]
    /\ UNCHANGED <<extra_kwargs, last_requested, app_vars>>

NextCalls ==
    \/ \E id \in CallIdentifiers : GetRequiredFields(id)
    \/ \E value \in FieldInputs : SetFields(value)
    \/ \E id \in CallIdentifiers, data \in DataInputs : FileName(id, data)
    \/ \E id \in CallIdentifiers, data \in DataInputs \ {NoneDict}, source \in ManagerSources :
          GenerateChart(id, data, source)

SpecCalls == InitCalls /\ [][NextCalls]_vars

----------------------------------------------------------------------------
(* main.py: the activities of AnalyticsApp on the one FILE_MANAGER *)

\* the paths the file picker hands over: files of readers with and without
\* fields of their own, and a file whose suffix has no reader
PickerPaths == {<<"a", ".", "csv">>, <<"a", ".", "db">>, <<"a", ".", "xml">>, <<"a", ".", "txt">>}

\* the values of the radio group: a dialect tag, or None when none is chosen
DatabaseChoices == {NonePath} \cup DOMAIN database_readers

\* what the text boxes of a schema can hold on "continue": every box filled,
\* or one left empty
TextInputs(schema) ==
    {Dict(Filled(schema, a, b)) : a \in AxisValues, b \in AxisValues}
        \cup {Dict([Filled(schema, PyStr("x"), PyStr("x")) EXCEPT ![n] = PyStr("")]) :
                 n \in DOMAIN schema}

\* ChartHistory.create(file_name, extra_data): one more row
Create(rows, name, data) == Append(rows, [file_name |-> name, extra_data |-> data])

InitActivities ==
    /\ InitManager
    /\ InitApp
    /\ call = NoCall
    /\ ret = Pending

\* field_input_activity from line 140 on: get_required_fields(self.file_path)
\* outside of any try, then the text boxes of the schema
ShowFields(path, page_before, message) ==
    /\ current_file_path' = path
    /\ dialog' = message
    /\ IF get_required_fields(path).kind = "ok"
       THEN page' = "fields" /\ escaped' = NoError
       ELSE /\ page' = page_before
            /\ escaped' = [activity |-> "field_input_activity",
                            kind |-> get_required_fields(path).kind]

\* chart_view_activity(validated_data): everything inside its try
ChartView(path, data, source, page_before) ==
    IF path = NonePath
    THEN /\ dialog' = "file_not_chosen"
         /\ ret' = Raised("AssertionError", "file_not_chosen", {})
         /\ page' = page_before
         /\ UNCHANGED current_file_path
    ELSE IF data.none \/ Keys(data) = {}
    THEN /\ dialog' = "data_not_given"
         /\ ret' = Raised("AssertionError", "data_not_given", {})
         /\ page' = page_before
         /\ UNCHANGED current_file_path
    ELSE \E g \in generate_chart(path, data.items, source) :
            /\ ret' = g.ret
            /\ dialog' = IF g.ret.kind = "ok" THEN "" ELSE g.ret.kind
            /\ page' = "chart"
            /\ current_file_path' = IF g.reset THEN NonePath ELSE current_file_path

\* main_activity, from the "back" buttons
MainActivity ==
    /\ page \in {"databases", "chart", "history"}
    /\ page' = "main"
    /\ file_path' = NonePath
    /\ call' = [NoCall EXCEPT !.op = "main_activity"]
    /\ ret' = Pending
    /\ dialog' = ""
    /\ escaped' = NoError
    /\ UNCHANGED <<fm_vars, store>>

\* _exit_callback
Exit ==
    /\ page = "main"
    /\ page' = "closed"
    /\ call' = [NoCall EXCEPT !.op = "exit"]
    /\ ret' = Pending
    /\ dialog' = ""
    /\ escaped' = NoError
    /\ UNCHANGED <<fm_vars, store, file_path>>

\* _open_file and _open_file_result: the picked path, then field_input_activity()
OpenFileResult(path) ==
    /\ page = "main"
    /\ file_path' = path
    /\ ShowFields(path, page, "")
    /\ call' = [NoCall EXCEPT !.op = "field_input_activity"]
    /\ ret' = Pending
    /\ UNCHANGED <<extra_kwargs, last_requested, since, store>>

\* database_load_activity: from the main page without a database, from its own
\* "continue" button with the value of the radio group
DatabaseLoadActivity(database) ==
    /\ \/ page = "main" /\ database = NonePath
       \/ page = "databases"
    /\ call' = [NoCall EXCEPT !.op = "database_load_activity"]
    /\ ret' = Pending
    /\ IF database = NonePath
       THEN /\ page' = "databases"
            /\ file_path' = NonePath
            /\ dialog' = ""
            /\ escaped' = NoError
            /\ UNCHANGED current_file_path
       ELSE /\ file_path' = database
            /\ ShowFields(database, "blank", "")
    /\ UNCHANGED <<extra_kwargs, last_requested, since, store>>

\* field_input_activity(text_boxes=...), from the "continue" button of the
\* fields page
SubmitFields(field_data, source) ==
    /\ page = "fields"
    /\ Len(store) < MaxStore
    /\ extra_kwargs' = field_data
    /\ \E v \in fields_setter(current_file_path, field_data) :
          IF v.kind = "ok"
          THEN /\ store' = Create(store, file_path, field_data)
               /\ call' = [NoCall EXCEPT !.op = "field_input_activity", !.created = 1]
               /\ ChartView(file_path, field_data, source, page)
               /\ escaped' = NoError
          ELSE /\ store' = store
               /\ call' = [NoCall EXCEPT !.op = "field_input_activity"]
               /\ ret' = v
               /\ ShowFields(file_path, page, v.kind)
    /\ UNCHANGED <<file_path, last_requested, since>>

\* chart_history_view_activity(): file_name of every row, outside of any try
ChartHistoryList ==
    /\ page = "main"
    /\ file_path' = NonePath
    /\ call' = [NoCall EXCEPT !.op = "chart_history_view_activity"]
    /\ ret' = Pending
    /\ dialog' = ""
    /\ IF \A i \in DOMAIN store :
             \A o \in file_name(store[i].file_name, store[i].extra_data) : o.kind = "ok"
       THEN page' = "history" /\ escaped' = NoError
       ELSE /\ page' = "blank"
            /\ escaped' = [activity |-> "chart_history_view_activity",
                            kind |-> "AssertionError"]
    /\ UNCHANGED <<fm_vars, store>>

\* chart_history_view_activity(chart_id=...), from the button of a row
ChartHistoryOpen(chart_id, source) ==
    /\ page = "history"
    /\ chart_id \in DOMAIN store
    /\ file_path' = store[chart_id].file_name
    /\ call' = [NoCall EXCEPT !.op = "chart_history_view_activity"]
    /\ ChartView(store[chart_id].file_name, store[chart_id].extra_data, source, "blank")
    /\ escaped' = NoError
    /\ UNCHANGED <<extra_kwargs, last_requested, since, store>>

NextActivities ==
    \/ MainActivity
    \/ Exit
    \/ \E path \in PickerPaths : OpenFileResult(path)
    \/ \E database \in DatabaseChoices : DatabaseLoadActivity(database)
    \/ \E source \in ManagerSources :
          \E field_data \in TextInputs(get_required_fields(file_path).schema) :
              SubmitFields(field_data, source)
    \/ ChartHistoryList
    \/ \E chart_id \in 1..MaxStore, source \in ManagerSources :
          ChartHistoryOpen(chart_id, source)

SpecActivities == InitActivities /\ [][NextActivities]_vars

----------------------------------------------------------------------------
(* Claims about validate_required_fields, under SpecValidate *)

Validated == call.op = "validate" /\ ret # Pending

\* every name of R is a key of P, with a truthy value of exactly R's type
Satisfies(R, P) ==
    /\ ~P.none
    /\ DOMAIN R \subseteq Keys(P)
    /\ \A n \in DOMAIN R : Truthy(P.items[n]) /\ P.items[n].type = R[n]

\* C1: validate_required_fields(R, P) returns without raising if and only if R
\* is empty, or every name of R is a key of P with a truthy value of exactly the
\* declared type; also for P that carries names not in R.
C1_ValidateIffSatisfied ==
    Validated =>
        (ret.kind = "ok" <=> (DOMAIN call.schema = {} \/ Satisfies(call.schema, call.data)))

\* the names of R that P lacks
Missing(R, P) == (DOMAIN R) \ Keys(P)

SalesDb == <<"a", ".", "db">>

\* C8: for non-empty R, validation fails with the missing-parameters error when
\* P is empty or absent or lacks a name of R, and the error lists exactly the
\* names of R that P lacks; the fields setter after get_required_fields of an
\* SQLite file fails so, listing table_name, for every value without table_name.
C8_MissingParametersListed ==
    Validated =>
        /\ (DOMAIN call.schema # {} /\ Missing(call.schema, call.data) # {}) =>
              /\ ret.kind = "AssertionError"
              /\ ret.message \in {"parameters_not_given", "not_enough_parameters"}
              /\ ret.names = Missing(call.schema, call.data)
        /\ (~call.data.none /\ "table_name" \notin Keys(call.data)) =>
              \A r \in fields_setter(SalesDb, call.data) :
                  /\ r.kind = "AssertionError"
                  /\ r.message \in {"parameters_not_given", "not_enough_parameters"}
                  /\ "table_name" \in r.names

\* the schema of the SQLite file, the two axis fields given and table_name not
C8_Witness ==
    /\ Validated
    /\ call.schema = get_required_fields(SalesDb).schema
    /\ Keys(call.data) = {"plot_verbose", "plot_value"}
    /\ \A n \in Keys(call.data) : call.data.items[n] = PyStr("x")
    /\ ret.kind = "AssertionError"
    /\ ret.names = {"table_name"}

----------------------------------------------------------------------------
(* Claims about resolution, under SpecResolve *)

Resolved == call.op = "resolve" /\ ret # Pending

\* the text of id after its last dot: one text, or none when id has no dot
Suffixes(id) ==
    {SubSeq(id, k + 1, Len(id)) :
        k \in {d \in DOMAIN id : id[d] = "." /\ \A j \in (d + 1)..Len(id) : id[j] # "."}}

SuffixIs(id, e) == e \in Suffixes(id)

\* C2: an identifier whose text after its last dot is a registered suffix
\* resolves to the reader class of that suffix, and a registered dialect tag
\* resolves to the remote reader class of that tag.
C2_ResolveRegistered ==
    Resolved =>
        /\ \A c \in Range(FileReaders) :
              SuffixIs(call.id, allowed_extension(c)) => ret.kind = "ok" /\ ret.reader = c
        /\ \A c \in Range(RemoteReaders) :
              call.id = allowed_extension(c) => ret.kind = "ok" /\ ret.reader = c

C2_Witness ==
    /\ Resolved
    /\ call.id = <<".", ".", "db">>
    /\ ret.kind = "ok"
    /\ ret.reader = "SqliteReader"

\* the suffixes that have a reader class
RegisteredSuffixes == {allowed_extension(c) : c \in Range(FileReaders)}

\* C7: an identifier that is no dialect tag fails before any extension check
\* when it has no dot, with the unknown-extension error when its suffix is not
\* in the allow-list, and with the other, unsupported-extension error when its
\* suffix is in the allow-list and has no reader.
C7_ResolveFailures ==
    (Resolved /\ \A c \in Range(RemoteReaders) : call.id # allowed_extension(c)) =>
        /\ ~HasDot(call.id) =>
              ret.kind = "AssertionError" /\ ret.message = "no_extension"
        /\ (\E e \in Suffixes(call.id) : e \notin allowed_extensions) =>
              ret.kind = "AssertionError" /\ ret.message = "extension_not_allowed"
        /\ (\E e \in Suffixes(call.id) :
                e \in allowed_extensions /\ e \notin RegisteredSuffixes) =>
              ret.kind = "AssertionError" /\ ret.message = "extension_not_supported"

C7_Witness ==
    /\ Resolved
    /\ call.id = <<"a", ".", "txt">>
    /\ ret.kind = "AssertionError"
    /\ ret.message = "extension_not_allowed"

----------------------------------------------------------------------------
(* Claims about _open_file and generate_chart, under SpecChart *)

Opened == call.op = "open_file" /\ ret # Pending

Charted == call.op = "generate_chart" /\ ret # Pending

\* C4: read() of every reader returns a table or raises; it never returns
\* without a table.
C4_ReadReturnsTable == (Opened /\ ret.kind = "ok") => ret.table.kind = "table"

AxisNames == {"plot_verbose", "plot_value"}

\* the key names a column of the table
IsColumn(table, key) == key.type = "str" /\ key.repr \in DOMAIN table.columns

\* C9: generate_chart takes the two axis names out of the parameters, makes the
\* reader from the remaining ones, and takes the columns in the order
\* (plot_verbose, plot_value); on a table returned by read() that lacks one of
\* them it raises the column error naming the first one lacking, and returns a
\* chart otherwise.
C9_GenerateChartColumns ==
    (Charted /\ AxisNames \subseteq Keys(call.data)) =>
        LET r == Resolve(call.id)
            rest == Dict(Without(call.data.items, AxisNames))
            a == call.data.items["plot_verbose"]
            b == call.data.items["plot_value"]
            was_read == ret.reader # ""
        IN  /\ r.kind = "ok" =>
                  (was_read <=>
                      /\ call.source.kind # "error"
                      /\ validate_required_fields(reader_required_fields(r.reader), rest)
                            = {Ok})
            /\ (was_read /\ ret.table.kind = "table") =>
                  IF ~IsColumn(ret.table, a)
                  THEN ret.kind = "KeyError" /\ ret.names = {a.repr}
                  ELSE IF ~IsColumn(ret.table, b)
                  THEN ret.kind = "KeyError" /\ ret.names = {b.repr}
                  ELSE ret.kind = "ok" /\ ret.message = "figure"

\* the SQLite file with its table name, a table with column x and without z
C9_Witness ==
    /\ Charted
    /\ call.id = SalesDb
    /\ call.data = Dict(Filled(get_required_fields(SalesDb).schema, PyStr("x"), PyStr("z")))
    /\ call.source = Table([c \in {"x", "y"} |-> "number"])
    /\ ret.kind = "KeyError"
    /\ ret.names = {"z"}

\* C10: the table read() returns from a reader other than the HTML and the XML
\* one holds only the numeric columns of the decoded source.
C10_ReadNumericOnly ==
    (Opened /\ ret.kind = "ok" /\ ret.reader \notin {"HtmlReader", "XmlReader"}) =>
        \A c \in DOMAIN ret.table.columns : ret.table.columns[c] = "number"

----------------------------------------------------------------------------
(* Claims about the calls on one FileManager, under SpecCalls *)

\* the assignment validates against the schema of the identifier that the last
\* get_required_fields call was given
ValidatesAgainstLast ==
    LET g == get_required_fields(last_requested)
    IN  ret.kind = "ok" <=>
            (g.kind = "ok" /\ validate_required_fields(g.schema, extra_kwargs) = {Ok})

\* C3: after any get_required_fields, file_name and generate_chart calls, the
\* assignment to fields succeeds exactly when the value validates against the
\* schema of the identifier of the most recent get_required_fields call, also
\* with a generate_chart or file_name call in between.
C3_FieldsAgainstLastRequested ==
    (call.op = "fields" /\ last_requested # NonePath) => ValidatesAgainstLast

\* C3 as amended: so it is, unless a generate_chart call got past read() since
\* that get_required_fields call; from then on, and before any
\* get_required_fields call, the assignment raises TypeError.
C3_FieldsUnlessChartSince ==
    call.op = "fields" =>
        IF since = "chart" \/ last_requested = NonePath
        THEN ret.kind = "TypeError" /\ ret.message = "not_iterable"
        ELSE ValidatesAgainstLast

\* an accepted assignment after get_required_fields of the SQLite file and a
\* file_name or a failed generate_chart call
C3_Witness ==
    /\ call.op = "fields"
    /\ last_requested = SalesDb
    /\ since = "other"
    /\ ret.kind = "ok"

----------------------------------------------------------------------------
(* Claims about the activities, under SpecActivities *)

\* C5: a row of chart_history is created only for a chart generation that
\* succeeded: when generate_chart fails for what was submitted, the submission
\* has created no row.
C5_RowOnlyForGeneratedChart ==
    (call.op = "field_input_activity" /\ page = "chart" /\ ret.kind # "ok") =>
        call.created = 0

\* C6: every error raised by validation, resolution, reading or column
\* extraction during an activity is caught in it and shown as a dialog; none
\* leaves the activity uncaught.
C6_NoErrorEscapes == escaped = NoError

----------------------------------------------------------------------------
(* Claims about the fields setter, under SpecCalls *)

\* the assignment got to validate_required_fields, which raised
RejectedByValidation ==
    /\ call'.op = "fields"
    /\ get_required_fields(current_file_path).kind = "ok"
    /\ ret'.kind # "ok"

\* C11: an assignment to fields that fails validation discards the rejected
\* value: fields afterwards is what it was before the assignment, and the
\* cached identifier is unchanged.
C11_RejectedFieldsDiscarded ==
    [][RejectedByValidation =>
          (extra_kwargs' = extra_kwargs /\ current_file_path' = current_file_path)]_vars

====
